---- MODULE Spec2Model ----
(***************************************************************************)
(* Olive canopy segmenter: the segmentation pipeline of                    *)
(* otsu_segmentation.py (segment_olivos and its helpers) and the dialog    *)
(* handlers of segmentador_olivos_dialog.py that drive it.                 *)
(*                                                                         *)
(* Numbers.  Pixel intensities are 8-bit integers.  Geographic values are  *)
(* exact rationals <<n, d>> with d > 0: the model computes what the        *)
(* double-precision expressions of the code denote, without rounding.      *)
(* The OpenCV and GDAL calls are modelled by the algorithm the library     *)
(* runs for the flags the code passes.                                     *)
(***************************************************************************)
EXTENDS Integers, Sequences, FiniteSets, TLC

(***************************************************************************)
(* Bounds of the model.                                                    *)
(***************************************************************************)
MaxW == 2
MaxH == 2
MaxRuns == 2
MaxSamples == 1
MaxStrip == 4
MaxSpan == 2
MaxLayers == 3

Abs(n) == IF n < 0 THEN -n ELSE n

\* Python int(): truncation toward zero of n / d, for d > 0.
Trunc(n, d) == IF n >= 0 THEN n \div d ELSE -((-n) \div d)

\* The pixels of a w x h image, as <<col, row>>.
Pixels(w, h) == (0..(w - 1)) \X (0..(h - 1))

(***************************************************************************)
(* cv2.threshold(img, 0, 255, THRESH_BINARY + THRESH_OTSU).                *)
(*                                                                         *)
(* Otsu: for i = 0..255 in ascending order, q1 = share of pixels <= i,     *)
(* q2 = 1 - q1, skipped when a class is empty, sigma = q1*q2*(mu1-mu2)^2,  *)
(* and the threshold is the first i whose sigma is strictly larger than    *)
(* every earlier one (0 when there is none).  With n0, n1 the class sizes  *)
(* and s0, s1 the class sums, sigma = D^2 / (N^2 * n0 * n1) for            *)
(* D = s0*n1 - s1*n0; N^2 is common to all i, so sigma is compared as the  *)
(* mixed number int + rem/den of D^2 / (n0*n1), which stays in range.      *)
(***************************************************************************)
Hist(img) == [v \in 0..255 |-> Cardinality({p \in DOMAIN img : img[p] = v})]

SigmaOf(D, m) ==
    LET A  == Abs(D)
        qa == A \div m
        ra == A % m
    IN  [int |-> qa * qa * m + 2 * qa * ra + (ra * ra) \div m,
         rem |-> (ra * ra) % m,
         den |-> m]

SigmaGreater(a, b) ==
    \/ a.int > b.int
    \/ a.int = b.int /\ a.rem * b.den > b.rem * a.den

\* One iteration of the scan, for candidate i.
\* A variant of the scan that puts bin i into the upper class (q1 counts the
\* bins below i only).
OtsuStepExclusive(hist, N, S, i, acc) ==
    LET n0 == acc.n0
        s0 == acc.s0
        n1 == N - n0
        sg == SigmaOf(s0 * n1 - (S - s0) * n0, n0 * n1)
        nx == [acc EXCEPT !.n0 = n0 + hist[i], !.s0 = s0 + i * hist[i]]
    IN  IF n0 = 0 \/ n1 = 0
        THEN nx
        ELSE IF SigmaGreater(sg, acc.max_sigma)
             THEN [nx EXCEPT !.max_sigma = sg, !.max_val = i]
             ELSE nx

OtsuStep(hist, N, S, i, acc) ==
    LET n0 == acc.n0 + hist[i]
        s0 == acc.s0 + i * hist[i]
        n1 == N - n0
        sg == SigmaOf(s0 * n1 - (S - s0) * n0, n0 * n1)
    IN  IF n0 = 0 \/ n1 = 0
        THEN [acc EXCEPT !.n0 = n0, !.s0 = s0]
        ELSE IF SigmaGreater(sg, acc.max_sigma)
             THEN [n0 |-> n0, s0 |-> s0, max_sigma |-> sg, max_val |-> i]
             ELSE [acc EXCEPT !.n0 = n0, !.s0 = s0]

\* The iterations lo..hi in ascending order.  The range is split in halves
\* and the first half is evaluated before the second is entered (the test on
\* left only orders the evaluation: max_val is never negative).
RECURSIVE OtsuScan(_, _, _, _, _, _)
OtsuScan(hist, N, S, lo, hi, acc) ==
    IF lo = hi THEN OtsuStep(hist, N, S, lo, acc)
    ELSE LET mid  == (lo + hi) \div 2
             left == OtsuScan(hist, N, S, lo, mid, acc)
         IN  IF left.max_val >= 0
             THEN OtsuScan(hist, N, S, mid + 1, hi, left)
             ELSE left

RECURSIVE HistSum(_, _, _)
HistSum(hist, lo, hi) ==
    IF lo = hi THEN lo * hist[lo]
    ELSE LET mid == (lo + hi) \div 2
         IN  HistSum(hist, lo, mid) + HistSum(hist, mid + 1, hi)

OtsuThreshold(img) ==
    LET hist == Hist(img)
    IN  OtsuScan(hist, Cardinality(DOMAIN img), HistSum(hist, 0, 255), 0, 255,
                 [n0 |-> 0, s0 |-> 0,
                  max_sigma |-> [int |-> 0, rem |-> 0, den |-> 1],
                  max_val |-> 0]).max_val

\* THRESH_BINARY with maxval 255: 255 where the intensity exceeds t, else 0.
ThresholdBinary(img, t) == [p \in DOMAIN img |-> IF img[p] > t THEN 255 ELSE 0]

(***************************************************************************)
(* The masked compositor, lines 141-145: bin_img is the thresholded image  *)
(* inside the AOI and 0 outside; mask_trees is 255 where the pixel is in   *)
(* the AOI and bin_img is 0.                                               *)
(***************************************************************************)
BinImg(mask, otsu) == [p \in DOMAIN otsu |-> IF mask[p] = 1 THEN otsu[p] ELSE 0]

\* A variant of the compositor that leaves the AOI mask out.
MaskTreesNoAoi(mask, otsu) ==
    [p \in DOMAIN otsu |-> IF otsu[p] = 0 THEN 255 ELSE 0]

MaskTrees(mask, otsu) ==
    LET bin_img == BinImg(mask, otsu)
    IN  [p \in DOMAIN otsu |-> IF mask[p] = 1 /\ bin_img[p] = 0 THEN 255 ELSE 0]

(***************************************************************************)
(* cv2.findContours(img, RETR_EXTERNAL, CHAIN_APPROX_SIMPLE): a raster     *)
(* scan that starts a border following at every unmarked pixel whose left  *)
(* neighbour is 0 and that does not lie inside an already traced border.   *)
(* Pixels of a traced border are marked 2, those with a 0 to their right   *)
(* RightMark; the contours come out latest found first.                    *)
(***************************************************************************)
RightMark == -126

Delta(s) ==
    CASE s = 0 -> <<1, 0>>   [] s = 1 -> <<1, -1>> [] s = 2 -> <<0, -1>>
      [] s = 3 -> <<-1, -1>> [] s = 4 -> <<-1, 0>> [] s = 5 -> <<-1, 1>>
      [] s = 6 -> <<0, 1>>   [] s = 7 -> <<1, 1>>

MoveTo(p, s) == <<p[1] + Delta(s % 8)[1], p[2] + Delta(s % 8)[2]>>

\* The image is framed by zeros.
At(im, p) == IF p \in DOMAIN im THEN im[p] ELSE 0

\* do { s = (s - 1) & 7; } while (*i1 == 0 && s != s_end), s_end = 4.
RECURSIVE FirstDir(_, _, _)
FirstDir(im, i0, s) ==
    LET s1 == (s + 7) % 8
    IN  IF At(im, MoveTo(i0, s1)) # 0 \/ s1 = 4 THEN s1 ELSE FirstDir(im, i0, s1)

\* while (s < 15) { i4 = i3 + deltas[++s]; if (*i4 != 0) break; }
RECURSIVE NextDir(_, _, _)
NextDir(im, i3, s) ==
    LET s1 == s + 1
    IN  IF At(im, MoveTo(i3, s1)) # 0 \/ s1 >= 15 THEN s1 ELSE NextDir(im, i3, s1)

RECURSIVE Follow(_, _, _, _, _, _, _)
Follow(im, i0, i1, i3, s, prev_s, pts) ==
    LET s_end == s
        su    == NextDir(im, i3, s)
        i4    == MoveTo(i3, su)
        sn    == su % 8
        im2   == IF sn >= 1 /\ sn - 1 < s_end
                 THEN [im EXCEPT ![i3] = RightMark]
                 ELSE IF im[i3] = 1 THEN [im EXCEPT ![i3] = 2] ELSE im
        pts2  == IF sn # prev_s THEN Append(pts, i3) ELSE pts
        prev2 == IF sn # prev_s THEN sn ELSE prev_s
    IN  IF i4 = i0 /\ i3 = i1
        THEN [im |-> im2, pts |-> pts2]
        ELSE IF im2[i3] # 0 /\ Len(pts2) >= 0
             THEN Follow(im2, i0, i1, i4, (sn + 4) % 8, prev2, pts2)
             ELSE [im |-> im2, pts |-> pts2]

FetchContour(im, i0) ==
    LET s == FirstDir(im, i0, 4)
    IN  IF s = 4
        THEN [im |-> [im EXCEPT ![i0] = RightMark], pts |-> <<i0>>]
        ELSE Follow(im, i0, MoveTo(i0, s), i0, s, (s + 4) % 8, <<>>)

Marked(v) == v # 0 /\ v # 1

\* One pixel of the raster scan; st = [im, conts, lx, prev], lx = -1 for the
\* zero frame to the left of the row.
ScanPixel(st, x, y) ==
    LET p    == st.im[<<x, y>>]
        lval == IF st.lx < 0 THEN 0 ELSE st.im[<<st.lx, y>>]
        Resume(l) == [st EXCEPT !.prev = p, !.lx = IF Marked(p) THEN x ELSE l]
    IN  IF p = st.prev
        THEN st
        ELSE IF st.prev = 0 /\ p = 1
             THEN IF lval > 0
                  THEN Resume(st.lx)
                  ELSE LET t == FetchContour(st.im, <<x, y>>)
                       IN  [im |-> t.im, conts |-> <<t.pts>> \o st.conts,
                            lx |-> x, prev |-> t.im[<<x, y>>]]
             ELSE IF p # 0 \/ st.prev < 1
                  THEN Resume(st.lx)
                  ELSE Resume(IF Marked(st.prev) THEN x - 1 ELSE st.lx)

\* The pixels x..w-1 of row y, left to right (the test on st2 only orders the
\* evaluation: lx is never below -1).
RECURSIVE ScanRow(_, _, _, _)
ScanRow(st, x, y, w) ==
    IF x >= w THEN st
    ELSE LET st2 == ScanPixel(st, x, y)
         IN  IF st2.lx >= -1 THEN ScanRow(st2, x + 1, y, w) ELSE st2

\* The rows y..h-1, top to bottom; each row starts with prev = 0 and lnbd on
\* the frame.
RECURSIVE ScanRows(_, _, _, _)
ScanRows(st, y, w, h) ==
    IF y >= h THEN st
    ELSE LET st2 == ScanRow([st EXCEPT !.prev = 0, !.lx = -1], 0, y, w)
         IN  IF st2.lx >= -1 THEN ScanRows(st2, y + 1, w, h) ELSE st2

FindContours(img, w, h) ==
    ScanRows([im |-> [p \in DOMAIN img |-> IF img[p] # 0 THEN 1 ELSE 0],
              conts |-> <<>>, lx |-> -1, prev |-> 0], 0, w, h).conts

(***************************************************************************)
(* cv2.contourArea: half the absolute shoelace sum over the closed vertex  *)
(* sequence; int() of it truncates.                                        *)
(***************************************************************************)
RECURSIVE ShoelaceSum(_, _)
ShoelaceSum(c, i) ==
    IF i > Len(c) THEN 0
    ELSE LET prev == IF i = 1 THEN c[Len(c)] ELSE c[i - 1]
         IN  prev[1] * c[i][2] - c[i][1] * prev[2] + ShoelaceSum(c, i + 1)

\* A variant of the area without the halving of the shoelace sum.
ContourAreaTwice(c) == Abs(ShoelaceSum(c, 1))

ContourAreaPx(c) == Abs(ShoelaceSum(c, 1)) \div 2

(***************************************************************************)
(* Exact rationals <<n, d>>, d > 0, in lowest terms.                       *)
(***************************************************************************)
RECURSIVE Gcd(_, _)
Gcd(a, b) == IF b = 0 THEN a ELSE Gcd(b, a % b)

Rat(n, d) ==
    LET g == Gcd(Abs(n), Abs(d))
        sg == IF d < 0 THEN -1 ELSE 1
    IN  <<(sg * n) \div g, (sg * d) \div g>>

RAdd(a, b) == Rat(a[1] * b[2] + b[1] * a[2], a[2] * b[2])
RSub(a, b) == Rat(a[1] * b[2] - b[1] * a[2], a[2] * b[2])
RMul(a, b) == Rat(a[1] * b[1], a[2] * b[2])
RDiv(a, b) == Rat(a[1] * b[2], a[2] * b[1])
RAbs(a)    == <<Abs(a[1]), a[2]>>
RLeq(a, b) == a[1] * b[2] <= b[1] * a[2]

(***************************************************************************)
(* The grid of _rasterize_aoi, lines 91-100 and 119-120: the geotransform  *)
(* of the raster's extent, px_x = gt[1] and px_y = abs(gt[5]).             *)
(***************************************************************************)
GridOf(r) ==
    LET gt1 == Rat(r.xmax - r.xmin, r.w)
        gt5 == Rat(-(r.ymax - r.ymin), r.h)
    IN  [w |-> r.w, h |-> r.h, xmin |-> r.xmin, ymax |-> r.ymax,
         gt1 |-> gt1, gt5 |-> gt5, px_x |-> gt1, px_y |-> RAbs(gt5)]

NoGrid == [w |-> 0, h |-> 0, xmin |-> 0, ymax |-> 0,
           gt1 |-> <<0, 1>>, gt5 |-> <<0, 1>>, px_x |-> <<0, 1>>, px_y |-> <<0, 1>>]

(***************************************************************************)
(* gdal.RasterizeLayer(dst_ds, [1], layer, burn_values=[1]) on a zeroed    *)
(* w x h band with geotransform gt, then line 123: a pixel is 1 iff its    *)
(* centre (gt applied to col + 1/2, row + 1/2) lies in a polygon of the    *)
(* AOI.  The AOI's polygons are axis-parallel rectangles [x0,x1] x [y0,y1] *)
(* in the raster's CRS.                                                    *)
(***************************************************************************)
CentreX(g, col) == RAdd(<<g.xmin, 1>>, RMul(<<2 * col + 1, 2>>, g.gt1))
CentreY(g, row) == RAdd(<<g.ymax, 1>>, RMul(<<2 * row + 1, 2>>, g.gt5))

InRect(x, y, rc) ==
    /\ RLeq(<<rc.x0, 1>>, x) /\ RLeq(x, <<rc.x1, 1>>)
    /\ RLeq(<<rc.y0, 1>>, y) /\ RLeq(y, <<rc.y1, 1>>)

\* A variant of the burn that marks every pixel, whatever the AOI.
RasterizeMaskAll(g, rects) == [p \in Pixels(g.w, g.h) |-> 1]

RasterizeMask(g, rects) ==
    [p \in Pixels(g.w, g.h) |->
        IF \E rc \in rects : InRect(CentreX(g, p[1]), CentreY(g, p[2]), rc)
        THEN 1 ELSE 0]

(***************************************************************************)
(* The forward transform of the polygon builder, lines 163-164, and the    *)
(* inverse of the point sampler, dialog lines 130-132.                     *)
(***************************************************************************)
PixelToGeo(ext_xmin, ext_ymax, px_x, px_y, px, py) ==
    <<RAdd(<<ext_xmin, 1>>, RMul(<<2 * px + 1, 2>>, px_x)),
      RSub(<<ext_ymax, 1>>, RMul(<<2 * py + 1, 2>>, px_y))>>

\* int(q) of a rational q.
RTrunc(q) == Trunc(q[1], q[2])

\* A variant of the inverse that rounds to the nearest index.
GeoToPixelRound(r, x_geo, y_geo) ==
    LET cw == Rat(r.xmax - r.xmin, r.w)
        ch == Rat(r.ymax - r.ymin, r.h)
    IN  <<RTrunc(RAdd(RDiv(RSub(x_geo, <<r.xmin, 1>>), cw), <<1, 2>>)),
          RTrunc(RAdd(RDiv(RSub(<<r.ymax, 1>>, y_geo), ch), <<1, 2>>))>>

GeoToPixel(r, x_geo, y_geo) ==
    LET cw == Rat(r.xmax - r.xmin, r.w)
        ch == Rat(r.ymax - r.ymin, r.h)
    IN  <<RTrunc(RDiv(RSub(x_geo, <<r.xmin, 1>>), cw)),
          RTrunc(RDiv(RSub(<<r.ymax, 1>>, y_geo), ch))>>

(***************************************************************************)
(* One iteration of the polygon loop, lines 156-169, for the i-th contour  *)
(* (i counts from 1 over all contours): the feature it adds.               *)
(***************************************************************************)
RECURSIVE RingOf(_, _, _)
RingOf(g, cnt, k) ==
    IF k > Len(cnt) THEN <<>>
    ELSE <<PixelToGeo(g.xmin, g.ymax, g.px_x, g.px_y, cnt[k][1], cnt[k][2])>>
         \o RingOf(g, cnt, k + 1)

MinVertices == 3

\* A variant of the vertex test that lets two-vertex contours through.
IsDegenerateBelowTwo(cnt) == Len(cnt) < MinVertices - 1

IsDegenerate(cnt) == Len(cnt) < MinVertices

FeatureOf(g, cnt, i) ==
    [ID |-> i, Area_px |-> ContourAreaPx(cnt), ring |-> RingOf(g, cnt, 1)]

(***************************************************************************)
(* State.                                                                  *)
(*   ras, aoi       the raster layer and the AOI layer the user works on   *)
(*   project        QgsProject.instance(): its layers, in order of adding  *)
(*   comboAOI, comboRaster, btnIniciar, btnTerminar, progress,             *)
(*   labelEstado, acceptTimers, pixelTool, muestras     the dialog         *)
(*   mapTool        whether the canvas' map tool is the dialog's picker    *)
(*   popup          the message box of the last invocation ("" for none)   *)
(*   pc             where the running segmentation is ("idle": none runs)  *)
(*   aoi_proj .. feats   the locals of _rasterize_aoi and segment_olivos   *)
(*                  (thresh_val is the local named _ of line 140)          *)
(*   runs           segmentations started so far                           *)
(***************************************************************************)
VARIABLES ras, aoi, project, comboAOI, comboRaster, btnIniciar, btnTerminar,
          progress, labelEstado, acceptTimers, pixelTool, mapTool, muestras,
          popup, pc, aoi_proj, grid, mask_arr, img_gray, thresh_val,
          otsu_full, mask_trees, contornos, i, feats, runs

inputs == <<ras, aoi>>
dialog == <<project, comboAOI, comboRaster, btnIniciar, btnTerminar,
            progress, labelEstado, acceptTimers>>
sampling == <<pixelTool, mapTool, muestras>>
locals == <<aoi_proj, grid, mask_arr, img_gray, thresh_val, otsu_full,
            mask_trees, contornos, i, feats>>
vars == <<ras, aoi, project, comboAOI, comboRaster, btnIniciar, btnTerminar,
          progress, labelEstado, acceptTimers, pixelTool, mapTool, muestras,
          popup, pc, aoi_proj, grid, mask_arr, img_gray, thresh_val,
          otsu_full, mask_trees, contornos, i, feats, runs>>

RasterLayer == [kind |-> "raster", feats |-> <<>>]
AoiLayer    == [kind |-> "aoi", feats |-> <<>>]
ResultLayer(fs) == [kind |-> "Olive_Canopies", feats |-> fs]

\* _fill_combos, lines 82-96: the .shp polygon layers and the .tif rasters of
\* the project.
IsAoi(l) == l.kind = "aoi"
IsRaster(l) == l.kind = "raster"
FillComboAOI(prj) == SelectSeq(prj, IsAoi)
FillComboRaster(prj) == SelectSeq(prj, IsRaster)

\* _toggle_sample_button, line 99.
ToggleSampleButton(combo) == Len(combo) > 0

(***************************************************************************)
(* Inputs.  A raster has w x h pixels over the extent xmin..xmax,          *)
(* ymin..ymax; its pixels have intensity lv[1] inside D and lv[2]          *)
(* elsewhere.  An AOI has rectangles, a CRS equal to the raster's or not,  *)
(* and a data source URI that ends in .shp or not.                         *)
(***************************************************************************)
Levels == <<10, 200>>
Origin == <<10, 20>>

MkRasterExt(w, h, xmin, xmax, ymin, ymax, D, lv) ==
    [w |-> w, h |-> h, xmin |-> xmin, xmax |-> xmax, ymin |-> ymin, ymax |-> ymax,
     img |-> [p \in Pixels(w, h) |-> IF p \in D THEN lv[1] ELSE lv[2]]]

\* Pixels of size sx x sy from Origin on.
MkRaster(w, h, sx, sy, D) ==
    MkRasterExt(w, h, Origin[1], Origin[1] + sx * w,
                Origin[2], Origin[2] + sy * h, D, Levels)

\* The rectangle of the columns c0..c1-1 and rows r0..r1-1 of a raster whose
\* pixels are sx x sy.
CellRect(r, sx, sy, c0, c1, r0, r1) ==
    [x0 |-> r.xmin + c0 * sx, x1 |-> r.xmin + c1 * sx,
     y0 |-> r.ymax - r1 * sy, y1 |-> r.ymax - r0 * sy]

FullAoi(r, sx, sy) ==
    [rects |-> {CellRect(r, sx, sy, 0, r.w, 0, r.h)},
     same_crs |-> TRUE, uri_shp |-> TRUE]

\* The first k columns and l rows, from a layer in another CRS.
PartAoi(r, sx, sy, k, l) ==
    [rects |-> {CellRect(r, sx, sy, 0, k, 0, l)},
     same_crs |-> FALSE, uri_shp |-> FALSE]

\* One square polygon per pixel of M.
CellsAoi(r, sx, sy, M) ==
    [rects |-> {CellRect(r, sx, sy, p[1], p[1] + 1, p[2], p[2] + 1) : p \in M},
     same_crs |-> TRUE, uri_shp |-> TRUE]

\* An AOI that covers every extent of the model.
HugeAoi ==
    [rects |-> {[x0 |-> -1000, x1 |-> 1000, y0 |-> -1000, y1 |-> 1000]},
     same_crs |-> TRUE, uri_shp |-> FALSE]

NoAoi == [rects |-> {}, same_crs |-> TRUE, uri_shp |-> TRUE]

\* The 10 x 10 scenes: a 3 x 3 dark block centred at (5, 5), alone or with an
\* isolated dark pixel above and below it.
Block == (4..6) \X (4..6)
BlockAndDots == Block \cup {<<1, 1>>, <<8, 8>>}
FarBlock == (5..7) \X (5..7)
Scene(D) == MkRaster(10, 10, 2, 2, D)
SceneFullAoi == FullAoi(Scene(Block), 2, 2)
SceneTopLeftAoi == PartAoi(Scene(Block), 2, 2, 5, 5)

Half(n) == (n + 1) \div 2

SmallInputs ==
    UNION { UNION { { <<MkRaster(w, h, 2, 2, D), a>> :
                        D \in SUBSET Pixels(w, h),
                        a \in { FullAoi(MkRaster(w, h, 2, 2, {}), 2, 2),
                                PartAoi(MkRaster(w, h, 2, 2, {}), 2, 2,
                                        Half(w), Half(h)) } } :
                    h \in 0..MaxH } : w \in 0..MaxW }

BadExtentInputs ==
    { <<MkRaster(2, 2, sc[1], sc[2], D), HugeAoi>> :
        sc \in {<<0, 2>>, <<2, 0>>, <<-1, 2>>, <<2, -1>>},
        D \in {{}, {<<0, 0>>}, Pixels(2, 2) \ {<<1, 1>>}} }

SceneInputs ==
    { <<Scene(Block), SceneFullAoi>>,
      <<Scene(Block), SceneTopLeftAoi>>,
      <<Scene(Block), NoAoi>>,
      <<Scene(FarBlock), SceneTopLeftAoi>>,
      <<Scene(BlockAndDots), SceneFullAoi>> }

NoLocals ==
    /\ aoi_proj = NoAoi /\ grid = NoGrid /\ mask_arr = <<>> /\ img_gray = <<>>
    /\ thresh_val = 0 /\ otsu_full = <<>> /\ mask_trees = <<>>
    /\ contornos = <<>> /\ i = 0 /\ feats = <<>>

\* __init__, lines 42-67, on a project that holds prj.
InitDialog(prj) ==
    /\ project = prj
    /\ comboAOI = FillComboAOI(prj)
    /\ comboRaster = FillComboRaster(prj)
    /\ btnIniciar = ToggleSampleButton(FillComboRaster(prj))
    /\ btnTerminar = FALSE
    /\ progress = 0
    /\ labelEstado = <<"Select AOI (.shp) and raster (.tif/.tiff)", 0>>
    /\ acceptTimers = 0
    /\ pixelTool = FALSE
    /\ mapTool = FALSE
    /\ muestras = <<>>
    /\ popup = ""

Init ==
    /\ \/ /\ \E inp \in SmallInputs \cup BadExtentInputs \cup SceneInputs :
               ras = inp[1] /\ aoi = inp[2]
          /\ InitDialog(<<RasterLayer, AoiLayer>>)
       \/ /\ ras = Scene(Block) /\ aoi = SceneFullAoi
          /\ \E prj \in {<<>>, <<RasterLayer>>, <<AoiLayer>>} : InitDialog(prj)
    /\ pc = "idle"
    /\ runs = 0
    /\ NoLocals

(***************************************************************************)
(* segmentar_con_otsu, lines 151-169, and segment_olivos, one action per   *)
(* step.  An exception of a step ends the invocation in the handler's      *)
(* except clause (lines 159-161).                                          *)
(***************************************************************************)
Release ==
    /\ aoi_proj' = NoAoi /\ grid' = NoGrid /\ mask_arr' = <<>> /\ img_gray' = <<>>
    /\ thresh_val' = 0 /\ otsu_full' = <<>> /\ mask_trees' = <<>>
    /\ contornos' = <<>> /\ i' = 0 /\ feats' = <<>>

\* A variant of the failure path that still adds the layer built so far and
\* completes the progress bar.
RaiseEffectPartial(exc) ==
    /\ popup' = exc
    /\ project' = Append(project, [kind |-> "Olive_Canopies", feats |-> feats])
    /\ progress' = 100
    /\ UNCHANGED <<comboAOI, comboRaster, btnIniciar, btnTerminar,
                   labelEstado, acceptTimers>>

\* What an exception leaves of the dialog and the project: nothing new.
RaiseEffect(exc) ==
    /\ popup' = exc
    /\ UNCHANGED dialog

\* The exception exc leaves segment_olivos: QMessageBox.critical and return.
Raise(exc) ==
    /\ pc' = "idle"
    /\ RaiseEffect(exc)
    /\ Release
    /\ UNCHANGED <<inputs, sampling, runs>>

Errors == { "Could not load layer", "Failed to write temporary AOI shapefile",
            "ZeroDivisionError", "Failed to open AOI layer with OGR",
            "GDAL RasterizeLayer error",
            "OpenCV could not read the raster (grayscale)" }

\* Lines 152-158: the OK button.
Accept ==
    /\ pc = "idle"
    /\ runs < MaxRuns
    /\ runs' = runs + 1
    /\ \/ /\ Len(comboAOI) = 0 \/ Len(comboRaster) = 0
          /\ popup' = "You must select valid AOI and raster."
          /\ UNCHANGED <<inputs, dialog, sampling, pc, locals>>
       \/ /\ Len(comboAOI) > 0 /\ Len(comboRaster) > 0
          /\ pc' = "reproject"
          /\ popup' = ""
          /\ UNCHANGED <<inputs, dialog, sampling, locals>>

\* _reproject_aoi_to_raster, lines 49-61.
Reproject ==
    /\ pc = "reproject"
    /\ \/ /\ aoi.same_crs
          /\ aoi_proj' = aoi
          /\ pc' = "prepare"
          /\ UNCHANGED <<inputs, dialog, sampling, popup, runs, grid, mask_arr,
                         img_gray, thresh_val, otsu_full, mask_trees,
                         contornos, i, feats>>
       \/ /\ ~aoi.same_crs
          /\ aoi_proj' = [aoi EXCEPT !.same_crs = TRUE, !.uri_shp = FALSE]
          /\ pc' = "prepare"
          /\ UNCHANGED <<inputs, dialog, sampling, popup, runs, grid, mask_arr,
                         img_gray, thresh_val, otsu_full, mask_trees,
                         contornos, i, feats>>
       \/ /\ ~aoi.same_crs
          /\ Raise("Could not load layer")

\* _prepare_aoi_file, lines 64-80.
PrepareAoiFile ==
    /\ pc = "prepare"
    /\ \/ /\ pc' = "grid"
          /\ UNCHANGED <<inputs, dialog, sampling, popup, runs, locals>>
       \/ /\ ~aoi_proj.uri_shp
          /\ Raise("Failed to write temporary AOI shapefile")

\* Lines 91-106: the geotransform; dividing by a width or height of 0 raises.
DeriveGrid ==
    /\ pc = "grid"
    /\ \/ /\ ras.w = 0 \/ ras.h = 0
          /\ Raise("ZeroDivisionError")
       \/ /\ ras.w # 0 /\ ras.h # 0
          /\ grid' = GridOf(ras)
          /\ pc' = "burn"
          /\ UNCHANGED <<inputs, dialog, sampling, popup, runs, aoi_proj,
                         mask_arr, img_gray, thresh_val, otsu_full, mask_trees,
                         contornos, i, feats>>

\* Lines 108-124: OGR opens the AOI file and GDAL burns it.
Burn ==
    /\ pc = "burn"
    /\ \/ Raise("Failed to open AOI layer with OGR")
       \/ Raise("GDAL RasterizeLayer error")
       \/ /\ mask_arr' = RasterizeMask(grid, aoi_proj.rects)
          /\ pc' = "read"
          /\ UNCHANGED <<inputs, dialog, sampling, popup, runs, aoi_proj, grid,
                         img_gray, thresh_val, otsu_full, mask_trees,
                         contornos, i, feats>>

\* Lines 135-138: cv2.imread of the raster's file.
ReadRaster ==
    /\ pc = "read"
    /\ \/ Raise("OpenCV could not read the raster (grayscale)")
       \/ /\ img_gray' = ras.img
          /\ pc' = "threshold"
          /\ UNCHANGED <<inputs, dialog, sampling, popup, runs, aoi_proj, grid,
                         mask_arr, thresh_val, otsu_full, mask_trees,
                         contornos, i, feats>>

\* Line 140.
Threshold ==
    /\ pc = "threshold"
    /\ thresh_val' = OtsuThreshold(img_gray)
    /\ otsu_full' = ThresholdBinary(img_gray, thresh_val')
    /\ pc' = "composite"
    /\ UNCHANGED <<inputs, dialog, sampling, popup, runs, aoi_proj, grid,
                   mask_arr, img_gray, mask_trees, contornos, i, feats>>

\* Lines 141-145.
Composite ==
    /\ pc = "composite"
    /\ mask_trees' = MaskTrees(mask_arr, otsu_full)
    /\ pc' = "contours"
    /\ UNCHANGED <<inputs, dialog, sampling, popup, runs, aoi_proj, grid,
                   mask_arr, img_gray, thresh_val, otsu_full, contornos, i,
                   feats>>

\* Lines 147-154: the contours and the empty memory layer.
TraceContours ==
    /\ pc = "contours"
    /\ contornos' = FindContours(mask_trees, grid.w, grid.h)
    /\ feats' = <<>>
    /\ i' = 1
    /\ pc' = "polygons"
    /\ UNCHANGED <<inputs, dialog, sampling, popup, runs, aoi_proj, grid,
                   mask_arr, img_gray, thresh_val, otsu_full, mask_trees>>

\* Lines 156-158: a contour of fewer than 3 vertices is passed over.
SkipContour ==
    /\ pc = "polygons"
    /\ i <= Len(contornos)
    /\ IsDegenerate(contornos[i])
    /\ i' = i + 1
    /\ UNCHANGED <<inputs, dialog, sampling, popup, runs, pc, aoi_proj, grid,
                   mask_arr, img_gray, thresh_val, otsu_full, mask_trees,
                   contornos, feats>>

\* Lines 159-169: the feature of the i-th contour.
EmitPolygon ==
    /\ pc = "polygons"
    /\ i <= Len(contornos)
    /\ ~IsDegenerate(contornos[i])
    /\ feats' = Append(feats, FeatureOf(grid, contornos[i], i))
    /\ i' = i + 1
    /\ UNCHANGED <<inputs, dialog, sampling, popup, runs, pc, aoi_proj, grid,
                   mask_arr, img_gray, thresh_val, otsu_full, mask_trees,
                   contornos>>

\* A variant in which the memory layer of the previous run is reused.
VLayerReused ==
    ResultLayer((IF Len(project) > 0 /\ project[Len(project)].kind = "Olive_Canopies"
                 THEN project[Len(project)].feats ELSE <<>>) \o feats)

\* The layer the loop has filled so far, line 151.
VLayer == ResultLayer(feats)

\* Lines 171-176 and 162-169: the layer is returned and added to the project
\* (layerWasAdded runs _on_layers_changed, lines 70-72), progress is 100 and
\* accept is scheduled.
Finish ==
    /\ pc = "polygons"
    /\ i > Len(contornos)
    /\ project' = Append(project, VLayer)
    /\ comboAOI' = FillComboAOI(project')
    /\ comboRaster' = FillComboRaster(project')
    /\ btnIniciar' = ToggleSampleButton(comboRaster')
    /\ progress' = 100
    /\ labelEstado' = <<"Done! canopies detected. Closing", Len(feats)>>
    /\ acceptTimers' = acceptTimers + 1
    /\ pc' = "idle"
    /\ Release
    /\ UNCHANGED <<inputs, btnTerminar, sampling, popup, runs>>

Next ==
    \/ Accept \/ Reproject \/ PrepareAoiFile \/ DeriveGrid \/ Burn
    \/ ReadRaster \/ Threshold \/ Composite \/ TraceContours
    \/ SkipContour \/ EmitPolygon \/ Finish

Spec == Init /\ [][Next]_vars

(***************************************************************************)
(* Point sampling, dialog lines 104-146.                                   *)
(***************************************************************************)
\* _start_sampling, lines 104-110: the "start" button, when enabled.
StartSampling ==
    /\ pc = "idle"
    /\ btnIniciar
    /\ pixelTool' = TRUE
    /\ mapTool' = TRUE
    /\ btnIniciar' = FALSE
    /\ btnTerminar' = TRUE
    /\ muestras' = <<>>
    /\ labelEstado' = <<"Samples collected", 0>>
    /\ UNCHANGED <<inputs, project, comboAOI, comboRaster, progress,
                   acceptTimers, popup, pc, locals, runs>>

\* The points the user clicks: the centres of the raster's pixels and of the
\* ring of cells around the raster.
ClickPoints(r) ==
    { PixelToGeo(r.xmin, r.ymax, GridOf(r).px_x, GridOf(r).px_y, c, rw) :
        c \in (-1)..r.w, rw \in (-1)..r.h }

\* _handle_pixel_click, lines 112-136, for a click at pt (already in the
\* raster's CRS).  Without a raster in the combo the handler returns at once,
\* and a click that falls outside the image leaves everything as it is.  The
\* px of a sample is the (col, row) of lines 131-132 whose colour it holds.
PixelClick ==
    /\ pc = "idle"
    /\ mapTool
    /\ Len(comboRaster) > 0
    /\ \E pt \in ClickPoints(ras) :
         \/ /\ popup' = "Unable to open raster with OpenCV."
            /\ UNCHANGED <<inputs, dialog, sampling, pc, locals, runs>>
         \/ /\ ras.xmax = ras.xmin \/ ras.ymax = ras.ymin
            /\ popup' = "ZeroDivisionError"
            /\ UNCHANGED <<inputs, dialog, sampling, pc, locals, runs>>
         \/ /\ ras.xmax # ras.xmin /\ ras.ymax # ras.ymin
            /\ LET cr == GeoToPixel(ras, pt[1], pt[2])
               IN  /\ cr \in Pixels(ras.w, ras.h)
                   /\ Len(muestras) < MaxSamples
                   /\ muestras' = Append(muestras,
                                         [x |-> pt[1], y |-> pt[2], px |-> cr,
                                          rgb |-> ras.img[cr]])
                   /\ labelEstado' = <<"Samples collected", Len(muestras')>>
            /\ UNCHANGED <<inputs, project, comboAOI, comboRaster, btnIniciar,
                           btnTerminar, progress, acceptTimers, pixelTool,
                           mapTool, popup, pc, locals, runs>>

\* _stop_sampling, lines 138-146: the "finish" button, when enabled.
StopSampling ==
    /\ pc = "idle"
    /\ btnTerminar
    /\ mapTool' = IF pixelTool THEN FALSE ELSE mapTool
    /\ btnTerminar' = FALSE
    /\ btnIniciar' = ToggleSampleButton(comboRaster)
    /\ labelEstado' = <<"SAMPLING COMPLETED. Total samples", Len(muestras)>>
    /\ UNCHANGED <<inputs, project, comboAOI, comboRaster, progress,
                   acceptTimers, pixelTool, muestras, popup, pc, locals, runs>>

\* Rasters over many extents: whole and fractional pixel sizes, negative
\* origins, and extents of no or negative width or height.
GeoOrigins == {-7, 10}

ExtentInputs ==
    { MkRasterExt(w, h, x0, x0 + dx, 20, 20 + dy, {<<0, 0>>}, Levels) :
        w \in 1..MaxW, h \in 1..MaxH, x0 \in GeoOrigins,
        dx \in (-1)..MaxSpan, dy \in (-1)..MaxSpan }

InitSample ==
    /\ \E r \in ExtentInputs : ras = r /\ aoi = HugeAoi
    /\ InitDialog(<<RasterLayer, AoiLayer>>)
    /\ pc = "idle"
    /\ runs = 0
    /\ NoLocals

NextSample == StartSampling \/ PixelClick \/ StopSampling

SpecSample == InitSample /\ [][NextSample]_vars

(***************************************************************************)
(* The thresholding and the compositor on their own: a run that has come   *)
(* to line 140, or to line 141, on a strip of pixels.                      *)
(***************************************************************************)
\* The state of a run on raster r and AOI a (in the raster's CRS) once the
\* mask is burnt and the raster is read.
MidRun(r, a) ==
    /\ ras = r /\ aoi = a
    /\ InitDialog(<<RasterLayer, AoiLayer>>)
    /\ runs = 1
    /\ aoi_proj = a
    /\ grid = GridOf(r)
    /\ mask_arr = RasterizeMask(GridOf(r), a.rects)
    /\ img_gray = r.img
    /\ mask_trees = <<>> /\ contornos = <<>> /\ i = 0 /\ feats = <<>>

Strip(w, D, lv) ==
    MkRasterExt(w, 1, Origin[1], Origin[1] + 2 * w, Origin[2], Origin[2] + 2, D, lv)

OtsuLevels == {0, 1, 10, 11, 127, 200, 254, 255}

LevelPairs == { lv \in OtsuLevels \X OtsuLevels : lv[1] < lv[2] }

OtsuInputs ==
    UNION { { Strip(w, D, lv) : D \in SUBSET Pixels(w, 1), lv \in LevelPairs } :
            w \in 1..MaxStrip }
    \cup { MkRasterExt(10, 10, 10, 30, 20, 40, Block, lv) : lv \in LevelPairs }

InitOtsu ==
    /\ \E r \in OtsuInputs : MidRun(r, HugeAoi)
    /\ pc = "threshold"
    /\ thresh_val = 0
    /\ otsu_full = <<>>

SpecOtsu == InitOtsu /\ [][Threshold]_vars

InitComposite ==
    /\ \E w \in 1..MaxStrip :
         \E D \in SUBSET Pixels(w, 1), M \in SUBSET Pixels(w, 1),
            lv \in {Levels, <<0, 200>>} :
              MidRun(Strip(w, D, lv), CellsAoi(Strip(w, D, lv), 2, 2, M))
    /\ pc = "composite"
    /\ thresh_val = OtsuThreshold(img_gray)
    /\ otsu_full = ThresholdBinary(img_gray, thresh_val)

SpecComposite == InitComposite /\ [][Composite]_vars

(***************************************************************************)
(* The dialog and the project's layers: the signals connected in __init__, *)
(* lines 54-62, and showEvent.                                             *)
(***************************************************************************)
\* A layer that is neither a .shp polygon layer nor a .tif/.tiff raster.
OtherLayer == [kind |-> "other", feats |-> <<>>]

LayerPool == {RasterLayer, AoiLayer, OtherLayer}

\* The sequence q without its j-th element.
RemoveAt(q, j) == SubSeq(q, 1, j - 1) \o SubSeq(q, j + 1, Len(q))

\* showEvent, lines 74-77.
ShowEvent ==
    /\ pc = "idle"
    /\ comboAOI' = FillComboAOI(project)
    /\ comboRaster' = FillComboRaster(project)
    /\ btnIniciar' = ToggleSampleButton(comboRaster')
    /\ UNCHANGED <<inputs, project, btnTerminar, progress, labelEstado,
                   acceptTimers, sampling, popup, pc, locals, runs>>

\* A layer is added to the project; layerWasAdded (line 61) then runs
\* _on_layers_changed, lines 70-72, on the project that holds it.
LayerAdded ==
    /\ pc = "idle"
    /\ Len(project) < MaxLayers
    /\ \E l \in LayerPool : project' = Append(project, l)
    /\ comboAOI' = FillComboAOI(project')
    /\ comboRaster' = FillComboRaster(project')
    /\ btnIniciar' = ToggleSampleButton(comboRaster')
    /\ UNCHANGED <<inputs, btnTerminar, progress, labelEstado, acceptTimers,
                   sampling, popup, pc, locals, runs>>

\* A layer is removed from the project; layerWillBeRemoved (line 62) runs
\* _on_layers_changed, lines 70-72, while the project still holds the layer,
\* and the layer leaves the project after the handler has returned.
LayerRemoved ==
    /\ pc = "idle"
    /\ \E j \in 1..Len(project) : project' = RemoveAt(project, j)
    /\ comboAOI' = FillComboAOI(project)
    /\ comboRaster' = FillComboRaster(project)
    /\ btnIniciar' = ToggleSampleButton(comboRaster')
    /\ UNCHANGED <<inputs, btnTerminar, progress, labelEstado, acceptTimers,
                   sampling, popup, pc, locals, runs>>

\* The user picks another raster in the combo; currentIndexChanged (line 54)
\* runs _toggle_sample_button, lines 98-99.
RasterComboChanged ==
    /\ pc = "idle"
    /\ Len(comboRaster) >= 2
    /\ btnIniciar' = ToggleSampleButton(comboRaster)
    /\ UNCHANGED <<inputs, project, comboAOI, comboRaster, btnTerminar,
                   progress, labelEstado, acceptTimers, sampling, popup, pc,
                   locals, runs>>

InitEvents ==
    /\ ras = Scene(Block) /\ aoi = SceneFullAoi
    /\ \E prj \in {<<>>, <<RasterLayer, AoiLayer>>} : InitDialog(prj)
    /\ pc = "idle"
    /\ runs = 0
    /\ NoLocals

NextEvents ==
    \/ ShowEvent \/ LayerAdded \/ LayerRemoved \/ RasterComboChanged
    \/ StartSampling \/ StopSampling

SpecEvents == InitEvents /\ [][NextEvents]_vars

(***************************************************************************)
(* Properties.                                                             *)
(***************************************************************************)
IsResult(l) == l.kind = "Olive_Canopies"

\* The result layers of the runs so far.
Results == SelectSeq(project, IsResult)

LoopDone == pc = "polygons" /\ i > Len(contornos)

ValidGrid(r) == r.w > 0 /\ r.h > 0 /\ r.xmax > r.xmin /\ r.ymax > r.ymin

\* C1: the IDs of the polygons of a run are 1..k in the order of emission,
\* with no gap, k being the number of polygons emitted.
C1_DenseIds ==
    /\ \A k \in 1..Len(feats) : feats[k].ID = k
    /\ \A r \in 1..Len(Results) :
         \A k \in 1..Len(Results[r].feats) : Results[r].feats[k].ID = k

\* C2: a pixel is foreground in the compositor's output iff it is inside the
\* AOI mask and thresholded to 0; pixels outside the AOI and pixels
\* thresholded to 255 are background.
C2_Compositor ==
    pc = "contours" =>
        /\ DOMAIN mask_trees = DOMAIN otsu_full
        /\ \A p \in DOMAIN mask_trees :
             /\ (mask_trees[p] # 0) <=> (mask_arr[p] = 1 /\ otsu_full[p] = 0)
             /\ mask_arr[p] # 1 => mask_trees[p] = 0
             /\ otsu_full[p] = 255 => mask_trees[p] = 0

\* The compositor has seen a dark and a bright pixel inside the AOI and a dark
\* and a bright pixel outside it.
C2_AllFourCases ==
    /\ pc = "contours"
    /\ \E p \in DOMAIN mask_trees :
         mask_arr[p] = 1 /\ otsu_full[p] = 0 /\ mask_trees[p] = 255
    /\ \E p \in DOMAIN mask_trees : mask_arr[p] = 1 /\ otsu_full[p] = 255
    /\ \E p \in DOMAIN mask_trees : mask_arr[p] = 0 /\ otsu_full[p] = 0
    /\ \E p \in DOMAIN mask_trees : mask_arr[p] = 0 /\ otsu_full[p] = 255

\* C3: no polygon comes from a contour of fewer than 3 vertices; such a
\* contour is passed over without an error and the loop goes on with the
\* contours after it, so the polygons are exactly those of the contours of 3
\* or more vertices seen so far.
C3_DegenerateSkipped ==
    /\ \A k \in 1..Len(feats) :
         /\ Len(feats[k].ring) >= 3
         /\ feats[k].ID \in 1..Len(contornos)
         /\ Len(contornos[feats[k].ID]) >= 3
    /\ pc = "polygons" =>
         /\ popup = ""
         /\ Len(feats) = Cardinality({k \in 1..(i - 1) : Len(contornos[k]) >= 3})
    /\ \A r \in 1..Len(Results) :
         \A k \in 1..Len(Results[r].feats) : Len(Results[r].feats[k].ring) >= 3

\* The loop is through three contours of which the first is degenerate: it
\* was passed over and the second gave the only polygon.
C3_SkippedThenEmitted ==
    /\ LoopDone
    /\ Len(contornos) = 3
    /\ Len(contornos[1]) < 3
    /\ Len(feats) = 1
    /\ feats[1].ID = 2

Values(img) == {img[p] : p \in DOMAIN img}
Lower(img) == CHOOSE a \in Values(img) : \A v \in Values(img) : a <= v
Upper(img) == CHOOSE b \in Values(img) : \A v \in Values(img) : v <= b

\* C4 as stated: on an image of two intensities a < b the threshold is
\* strictly between them, a < t* < b.
C4_StrictlyBetween ==
    (pc = "composite" /\ Cardinality(Values(img_gray)) = 2) =>
        Lower(img_gray) < thresh_val /\ thresh_val < Upper(img_gray)

\* C4, amended: on an image of two intensities a < b the threshold satisfies
\* a <= t* < b, so the pixels of intensity a are thresholded to 0 and those of
\* intensity b to 255.
C4_SeparatesPeaks ==
    (pc = "composite" /\ Cardinality(Values(img_gray)) = 2) =>
        /\ Lower(img_gray) <= thresh_val /\ thresh_val < Upper(img_gray)
        /\ \A p \in DOMAIN img_gray :
             otsu_full[p] = IF img_gray[p] = Lower(img_gray) THEN 0 ELSE 255

\* The 10 x 10 image with the block has been thresholded at its lower peak.
C4_ThresholdAtLowerPeak ==
    /\ pc = "composite"
    /\ Cardinality(DOMAIN img_gray) = 100
    /\ Values(img_gray) = {10, 200}
    /\ thresh_val = 10

BlockRun == ras = Scene(Block) /\ aoi = SceneFullAoi

\* C5 as stated: the 10 x 10 raster with the 3 x 3 block and the full AOI
\* gives one contour and one polygon, of ID 1 and Area_px 9.
C5_BlockAreaNine ==
    BlockRun =>
        /\ pc = "polygons" => Len(contornos) = 1
        /\ LoopDone => Len(feats) = 1 /\ feats[1].ID = 1 /\ feats[1].Area_px = 9
        /\ \A r \in 1..Len(Results) :
             /\ Len(Results[r].feats) = 1
             /\ Results[r].feats[1].ID = 1
             /\ Results[r].feats[1].Area_px = 9

\* C5, amended: the 10 x 10 raster with the 3 x 3 block and the full AOI
\* gives one contour, through the centres of the block's corner pixels, and
\* one polygon, of ID 1 and Area_px 4.
C5_BlockAreaFour ==
    BlockRun =>
        /\ pc = "polygons" =>
             contornos = << <<<<4, 4>>, <<4, 6>>, <<6, 6>>, <<6, 4>>>> >>
        /\ LoopDone => Len(feats) = 1 /\ feats[1].ID = 1 /\ feats[1].Area_px = 4
        /\ \A r \in 1..Len(Results) :
             /\ Len(Results[r].feats) = 1
             /\ Results[r].feats[1].ID = 1
             /\ Results[r].feats[1].Area_px = 4

\* The run on the block scene has delivered its layer.
C5_BlockRunDone ==
    /\ BlockRun
    /\ pc = "idle"
    /\ Len(Results) = 1
    /\ Len(Results[1].feats) = 1
    /\ progress = 100

\* C6: with the AOI on the top-left 5 x 5 pixels of the block scene the
\* result has no polygon; and whenever no pixel is both inside the AOI and
\* thresholded to 0, the compositor's output is all zero and there is no
\* contour.
C6_NothingDarkInAoi ==
    /\ (ras \in {Scene(Block), Scene(FarBlock)} /\ aoi = SceneTopLeftAoi) =>
         /\ LoopDone => feats = <<>>
         /\ \A r \in 1..Len(Results) : Results[r].feats = <<>>
    /\ (/\ pc \in {"contours", "polygons"}
        /\ ~\E p \in DOMAIN otsu_full : mask_arr[p] = 1 /\ otsu_full[p] = 0) =>
         /\ \A p \in DOMAIN mask_trees : mask_trees[p] = 0
         /\ pc = "polygons" => contornos = <<>>

\* The run on the block scene with the top-left AOI has delivered an empty
\* layer.
C6_TopLeftRunDone ==
    /\ ras = Scene(Block) /\ aoi = SceneTopLeftAoi
    /\ pc = "idle"
    /\ Len(Results) = 1
    /\ Results[1].feats = <<>>

Forward(r, p) ==
    PixelToGeo(r.xmin, r.ymax, GridOf(r).px_x, GridOf(r).px_y, p[1], p[2])

\* C7: on a valid grid the inverse transform of the point sampler takes the
\* forward transform of every pixel (col, row) of the raster back to
\* (col, row), and so does every sample taken at such a point.
C7_RoundTrip ==
    ValidGrid(ras) =>
        \A p \in Pixels(ras.w, ras.h) :
            /\ GeoToPixel(ras, Forward(ras, p)[1], Forward(ras, p)[2]) = p
            /\ \A k \in 1..Len(muestras) :
                 <<muestras[k].x, muestras[k].y>> = Forward(ras, p)
                     => muestras[k].px = p

\* A sample was taken at the centre of the last pixel of a 2 x 2 raster
\* whose pixels are half a unit wide.
C7_SampleAtLastPixel ==
    /\ ras.w = 2 /\ ras.h = 2
    /\ ras.xmin = -7 /\ ras.xmax = -6 /\ ras.ymax = 22
    /\ Len(muestras) = 1
    /\ muestras[1].px = <<1, 1>>
    /\ <<muestras[1].x, muestras[1].y>> = Forward(ras, <<1, 1>>)

\* C8: a stage that fails ends the invocation with its error: no stage runs
\* after it, no layer is produced or added to the project, the progress is
\* not set to 100 and accept is not scheduled.
C8_FailureEndsInvocation ==
    /\ [](popup \in Errors => pc = "idle" /\ feats = <<>>)
    /\ [][(pc # "idle" /\ popup' \in Errors) =>
            /\ pc' = "idle"
            /\ project' = project
            /\ progress' = progress
            /\ acceptTimers' = acceptTimers
            /\ labelEstado' = labelEstado
            /\ runs' = runs]_vars

\* The first run failed in the rasterization: nothing was added.
C8_FirstRunFailed ==
    /\ popup = "GDAL RasterizeLayer error"
    /\ pc = "idle"
    /\ runs = 1
    /\ Len(project) = 2
    /\ progress = 0
    /\ acceptTimers = 0

\* C9: a raster of no width or height, or of a degenerate extent, is turned
\* away when the grid is derived: no run goes on with it past that step.
C9_InvalidGridRejected ==
    ~ValidGrid(ras) => pc \in {"idle", "reproject", "prepare", "grid"}

\* C10: two runs on the same raster and AOI give the same polygons, with
\* the same IDs and areas.
C10_SameResultTwice ==
    \A j, k \in 1..Len(Results) : Results[j].feats = Results[k].feats

\* Two runs on the scene of the block and the dots have delivered a polygon
\* each.
C10_TwoRunsDone ==
    /\ ras = Scene(BlockAndDots)
    /\ Len(Results) = 2
    /\ Len(Results[1].feats) = 1
    /\ Len(Results[2].feats) = 1

\* C11: the start button is enabled only if the project holds a raster, and
\* the raster combo lists exactly the rasters that are in the project.
C11_ButtonAndComboFollowProject ==
    /\ btnIniciar => Len(FillComboRaster(project)) > 0
    /\ comboRaster = FillComboRaster(project)

\* C12: the start button and the stop button are never both enabled, and no
\* sampling session starts while the picker of another is the map tool.
C12_OneSessionAtATime ==
    /\ [](~(btnIniciar /\ btnTerminar))
    /\ [][(mapTool /\ btnTerminar) =>
            ~(pixelTool' /\ mapTool' /\ ~btnIniciar' /\ btnIniciar
              /\ muestras' = <<>> /\ labelEstado' = <<"Samples collected", 0>>)]_vars

====
